---------------------------- MODULE Spec2Model ----------------------------
(***************************************************************************)
(* Model of src/pong_ai.py: the module-level velocity estimator            *)
(* (_last_ball_cx, _last_ball_cy, _last_vx, _last_vy), the bounce folding  *)
(* predictor _predict_ball_y and the decision procedure pong_ai.           *)
(*                                                                         *)
(* Python floats are modelled as exact rationals n/d in lowest terms,      *)
(* extended with the three kinds of value the code can produce besides:    *)
(*   "tiny"  a non-zero float of magnitude below 1e-9 (what is left when   *)
(*           the two products of the moving average cancel, e.g.           *)
(*           (1.0-0.6)*-12.0 + 0.6*8.0 = -8.88e-16), n is its sign;        *)
(*   "inf"   float('inf') of line 130, n is its sign;                      *)
(*   "nan"   the result of inf % period.                                   *)
(* "none" is Python's None and "err" marks a value that was never          *)
(* computed because the call raised.                                       *)
(***************************************************************************)
EXTENDS Integers, Sequences, FiniteSets, TLC

\* ------------------------------------------------------------------ bounds
MaxCalls == 3      \* pong_ai calls in one session
MaxH == 3          \* largest table height tried on _predict_ball_y alone
MaxV2 == 6         \* largest |vy| tried there, in halves
MaxT2 == 6         \* largest t tried there, in halves

\* --------------------------------------------------------------- numbers
Abs(i) == IF i < 0 THEN -i ELSE i

RECURSIVE GCD(_, _)
GCD(a, b) == IF b = 0 THEN a ELSE GCD(b, a % b)

Num(n, d) ==
    IF d = 1 THEN [k |-> "num", n |-> n, d |-> 1]
    ELSE LET g == GCD(Abs(n), d)
         IN  [k |-> "num", n |-> n \div g, d |-> d \div g]

Q(i) == [k |-> "num", n |-> i, d |-> 1]
Zero == Q(0)
One == Q(1)
TinyOf(s) == [k |-> "tiny", n |-> s, d |-> 1]
InfOf(s) == [k |-> "inf", n |-> s, d |-> 1]
NaN == [k |-> "nan", n |-> 0, d |-> 1]
None == [k |-> "none", n |-> 0, d |-> 1]
NotComputed == [k |-> "err", n |-> 0, d |-> 1]

IsNum(x) == x.k = "num"
IsNone(x) == x.k = "none"
Sgn(x) == IF x.n < 0 THEN -1 ELSE IF x.n > 0 THEN 1 ELSE 0

\* the rational a float stands for, a tiny residue counting as 0
St(x) == IF x.k = "tiny" THEN Zero ELSE x

Neg(x) == [x EXCEPT !.n = -x.n]
AbsV(x) == [x EXCEPT !.n = Abs(x.n)]

\* a + b
Add(a, b) ==
    CASE a.k = "nan" \/ b.k = "nan" -> NaN
      [] a.k = "inf" /\ b.k = "inf" -> IF a.n = b.n THEN a ELSE NaN
      [] a.k = "inf" -> a
      [] b.k = "inf" -> b
      [] a.k = "tiny" /\ b.k = "tiny" -> IF a.n = b.n THEN a ELSE Zero
      [] a.k = "tiny" -> IF b.n = 0 THEN a ELSE b
      [] b.k = "tiny" -> IF a.n = 0 THEN b ELSE a
      [] OTHER ->
            LET g == GCD(a.d, b.d)
            IN  Num(a.n * (b.d \div g) + b.n * (a.d \div g), (a.d \div g) * b.d)

Sub(a, b) == Add(a, Neg(b))

\* a * b
Mul(a, b) ==
    CASE a.k = "nan" \/ b.k = "nan" -> NaN
      [] a.k = "inf" \/ b.k = "inf" ->
            IF a.n = 0 \/ b.n = 0 THEN NaN ELSE InfOf(Sgn(a) * Sgn(b))
      [] a.k = "tiny" \/ b.k = "tiny" ->
            IF a.n = 0 \/ b.n = 0 THEN Zero ELSE TinyOf(Sgn(a) * Sgn(b))
      [] OTHER ->
            LET g1 == GCD(Abs(a.n), b.d)
                g2 == GCD(Abs(b.n), a.d)
            IN  Num((a.n \div g1) * (b.n \div g2), (a.d \div g2) * (b.d \div g1))

\* a / b for rationals, b # 0 (the code divides only behind its 1e-9 guard)
Div(a, b) ==
    Mul(a, IF b.n > 0 THEN Num(b.d, b.n) ELSE Num(-b.d, -b.n))

\* a < b with IEEE ordering: every comparison with nan is false
Lt(a, b) ==
    CASE a.k = "nan" \/ b.k = "nan" -> FALSE
      [] a.k = "inf" -> a.n < 0 /\ ~(b.k = "inf" /\ b.n < 0)
      [] b.k = "inf" -> b.n > 0
      [] OTHER ->
            LET x == St(a)
                y == St(b)
                fx == x.n \div x.d
                fy == y.n \div y.d
                g == GCD(x.d, y.d)
                rx == (x.n - fx * x.d) * (y.d \div g)
                ry == (y.n - fy * y.d) * (x.d \div g)
                ta == IF a.k = "tiny" THEN a.n ELSE 0
                tb == IF b.k = "tiny" THEN b.n ELSE 0
            IN  IF fx # fy THEN fx < fy
                ELSE IF rx # ry THEN rx < ry
                ELSE ta < tb

Gt(a, b) == Lt(b, a)
Le(a, b) == a.k # "nan" /\ b.k # "nan" /\ ~Lt(b, a)

\* Python's min(a, b) and max(a, b): the first argument unless the second beats it
Min(a, b) == IF Lt(b, a) THEN b ELSE a
Max(a, b) == IF Lt(a, b) THEN b ELSE a

\* C's fmod, which truncates the quotient and so keeps the sign of a
ModTrunc(a, p) ==
    IF a.k \in {"inf", "nan"} THEN NaN
    ELSE LET q == Div(St(a), p)
             tq == IF q.n >= 0 THEN q.n \div q.d ELSE -((-q.n) \div q.d)
         IN  Sub(St(a), Mul(p, Q(tq)))

\* Python's float a % p for p # 0: a - p*floor(a/p); inf % p and nan % p are nan
Mod(a, p) ==
    IF a.k \in {"inf", "nan"} THEN NaN
    ELSE LET q == Div(St(a), p)
         IN  Sub(St(a), Mul(p, Q(q.n \div q.d)))

\* the literals of the source
EPS == Num(1, 1000000000)
BOUNCE_JUMP == Q(2)
ALPHA_BOUNCE == Num(6, 10)
ALPHA_NORMAL == Num(35, 100)

\* ------------------------------------------------------ _predict_ball_y
\* returns [err |-> TRUE] when the float modulo raises ZeroDivisionError
_predict_ball_y(ball_cy, vy, t, table_height) ==
    IF Le(t, Zero) \/ Lt(AbsV(vy), EPS)
    THEN [err |-> FALSE, y |-> ball_cy]
    ELSE LET y_wallless == Add(ball_cy, Mul(vy, t))
             period == Mul(Q(2), table_height)
         IN  IF period.n = 0
             THEN [err |-> TRUE, y |-> NotComputed]
             ELSE LET y_mod == Mod(y_wallless, period)
                  IN  IF Gt(y_mod, table_height)
                      THEN [err |-> FALSE, y |-> Sub(period, y_mod)]
                      ELSE [err |-> FALSE, y |-> y_mod]


\* ------------------------------------------------------------- the inputs
\* a rectangle as the harness hands it over: .pos top-left, .size (width, height)
Rect(x, y, w, h) == [pos |-> <<x, y>>, size |-> <<w, h>>]

\* table_size, the same in every call of a session
Tables == {<<800, 600>>, <<800, 0>>}

\* paddle_frect: a left paddle, a left paddle near the ball, a small right
\* paddle and a tall left paddle
Paddles ==
    {Rect(10, 250, 20, 100), Rect(290, 220, 20, 100),
     Rect(770, 298, 20, 4), Rect(10, 10, 20, 580)}

\* ball_frect: a flat run to the left (400 -> 380, steps of 3 and of exactly 2
\* behind it) and a bounce back to (388, 275)
Balls ==
    {Rect(400, 280, 10, 10), Rect(380, 280, 10, 10), Rect(388, 275, 10, 10),
     Rect(383, 280, 10, 10), Rect(382, 280, 10, 10)}

\* ------------------------------------------------------------------ state
VARIABLES
    table_size,       \* the table of this session
    _last_ball_cx,    \* the four module globals
    _last_ball_cy,
    _last_vx,
    _last_vy,
    calls,            \* pong_ai calls made so far
    out,              \* what the latest call read, computed and returned
    solo,             \* per logical paddle: the globals of a session in which
                      \* only that paddle's calls are made
    zone,             \* the first dead-zone call of the current run of
                      \* identical calls, if any
    pin,              \* arguments of a direct _predict_ball_y call
    pres              \* its result

vars ==
    <<table_size, _last_ball_cx, _last_ball_cy, _last_vx, _last_vy, calls,
      out, solo, zone, pin, pres>>

\* the globals as one value
Globals == [cx |-> _last_ball_cx, cy |-> _last_ball_cy, vx |-> _last_vx, vy |-> _last_vy]
NoHistory == [cx |-> None, cy |-> None, vx |-> None, vy |-> None]

\* -------------------------------------------------- the velocity estimator
\* centre of a rectangle: pos + size / 2.0
CentreX(r) == Add(Q(r.pos[1]), Div(Q(r.size[1]), Q(2)))
CentreY(r) == Add(Q(r.pos[2]), Div(Q(r.size[2]), Q(2)))

\* inst_vx, inst_vy
InstV(last, cur) == IF IsNone(last) THEN Zero ELSE Sub(cur, last)

\* the fast factor already at a jump of exactly 2.0
AlphaGe(g, inst_vx, inst_vy) ==
    LET vx_change == AbsV(Sub(inst_vx, g.vx))
        vy_change == AbsV(Sub(inst_vy, g.vy))
    IN  IF Le(BOUNCE_JUMP, vx_change) \/ Le(BOUNCE_JUMP, vy_change)
        THEN ALPHA_BOUNCE
        ELSE ALPHA_NORMAL

\* alpha: 0.6 after a jump of more than 2.0 on either axis, else 0.35
Alpha(g, inst_vx, inst_vy) ==
    LET vx_change == AbsV(Sub(inst_vx, g.vx))
        vy_change == AbsV(Sub(inst_vy, g.vy))
    IN  IF Gt(vx_change, BOUNCE_JUMP) \/ Gt(vy_change, BOUNCE_JUMP)
        THEN ALPHA_BOUNCE
        ELSE ALPHA_NORMAL

\* (1.0 - alpha) * last + alpha * inst in exact arithmetic
Blend(alpha, last, inst) == Add(Mul(Sub(One, alpha), last), Mul(alpha, inst))

\* whether the two products cancel exactly, so that the float sum is what
\* rounding leaves of them
Cancels(alpha, last, inst) ==
    IsNum(last) /\ last.n # 0 /\ inst.n # 0 /\ Blend(alpha, last, inst) = Zero

\* the float value of the blend.  1.0-0.6 and 1.0-0.35 lie above 0.4 and 0.65
\* and 0.6, 0.35 below, so a residue has the sign of last; r says whether the
\* roundings leave one
FloatBlend(alpha, last, inst, r) ==
    IF r /\ Cancels(alpha, last, inst) THEN TinyOf(Sgn(last)) ELSE Blend(alpha, last, inst)

\* lines 81-110: from the globals g and the ball centre to inst and vx, vy
Estimate(g, ball_cx, ball_cy, rx, ry) ==
    LET nopos == IsNone(g.cx) \/ IsNone(g.cy)
        inst_vx == IF nopos THEN Zero ELSE InstV(g.cx, ball_cx)
        inst_vy == IF nopos THEN Zero ELSE InstV(g.cy, ball_cy)
    IN  IF IsNone(g.vx) \/ IsNone(g.vy)
        THEN [inst_vx |-> inst_vx, inst_vy |-> inst_vy, alpha |-> None,
              vx |-> inst_vx, vy |-> inst_vy]
        ELSE LET alpha == Alpha(g, inst_vx, inst_vy)
             IN  [inst_vx |-> inst_vx, inst_vy |-> inst_vy, alpha |-> alpha,
                  vx |-> FloatBlend(alpha, g.vx, inst_vx, rx),
                  vy |-> FloatBlend(alpha, g.vy, inst_vy, ry)]

\* whether the blend of this call cancels on the x axis, on the y axis
CancelsXY(g, ball_cx, ball_cy) ==
    IF IsNone(g.vx) \/ IsNone(g.vy) \/ IsNone(g.cx) \/ IsNone(g.cy)
    THEN <<FALSE, FALSE>>
    ELSE LET ix == InstV(g.cx, ball_cx)
             iy == InstV(g.cy, ball_cy)
             a == Alpha(g, ix, iy)
         IN  <<Cancels(a, g.vx, ix), Cancels(a, g.vy, iy)>>

\* the roundings that can differ: only those of a cancelling blend
Roundings(c) ==
    {<<rx, ry>> : rx \in (IF c[1] THEN BOOLEAN ELSE {FALSE}),
                  ry \in (IF c[2] THEN BOOLEAN ELSE {FALSE})}

\* a store of the raw frame difference in place of the smoothed velocity
StoreStateInst(ball_cx, ball_cy, e) ==
    [cx |-> ball_cx, cy |-> ball_cy, vx |-> e.inst_vx, vy |-> e.inst_vy]

\* lines 113-116: the values the four globals are set to
StoreState(ball_cx, ball_cy, e) ==
    [cx |-> ball_cx, cy |-> ball_cy, vx |-> e.vx, vy |-> e.vy]

\* ------------------------------------------------------------ the decision
\* abs(ball_speed) > c for ball_speed = (vx**2 + vy**2)**0.5 and c >= 0, as
\* vx**2 + vy**2 > c**2; a component above c settles it before any square
SpeedAbove(vx, vy, c) ==
    \/ Gt(AbsV(vx), c)
    \/ Gt(AbsV(vy), c)
    \/ Gt(Add(Mul(vx, vx), Mul(vy, vy)), Mul(c, c))

\* the tolerance without its floor of 0.8
ToleranceNoFloor(toward_me, dist_x, table_w, ph) ==
    IF toward_me /\ Lt(dist_x, Mul(table_w, Num(25, 100)))
    THEN Mul(ph, Num(2, 100))
    ELSE IF toward_me /\ Lt(dist_x, Mul(table_w, Num(5, 10)))
    THEN Mul(ph, Num(5, 100))
    ELSE Mul(ph, Num(12, 100))

\* lines 178-189
Tolerance(toward_me, dist_x, table_w, ph) ==
    LET tolerance ==
            IF toward_me /\ Lt(dist_x, Mul(table_w, Num(25, 100)))
            THEN Mul(ph, Num(2, 100))
            ELSE IF toward_me /\ Lt(dist_x, Mul(table_w, Num(5, 10)))
            THEN Mul(ph, Num(5, 100))
            ELSE Mul(ph, Num(12, 100))
    IN  Max(tolerance, Num(8, 10))

\* lines 198-224
Command(diff, tolerance, toward_me, dist_x, table_w, table_h, paddle_cy, ph) ==
    IF Gt(diff, tolerance) THEN "down"
    ELSE IF Lt(diff, Neg(tolerance)) THEN "up"
    ELSE IF toward_me /\ Lt(dist_x, Mul(table_w, Num(4, 10)))
    THEN IF Gt(AbsV(diff), Num(5, 10))
         THEN (IF Gt(diff, Zero) THEN "down" ELSE "up")
         ELSE "up"
    ELSE LET center_offset == Sub(paddle_cy, Div(table_h, Q(2)))
         IN  IF Gt(AbsV(center_offset), Mul(ph, Num(5, 100)))
             THEN (IF Gt(center_offset, Zero) THEN "up" ELSE "down")
             ELSE (IF Lt(diff, Zero) THEN "up" ELSE "down")

\* the edge bias applied at every distance and speed
ApproachTargetAlwaysBias(predicted_y, ph, table_w, table_h, dist_x, vx, vy) ==
    LET half_ph == Div(ph, Q(2))
        top == Sub(table_h, half_ph)
        clamped ==
            IF Lt(predicted_y, half_ph) THEN half_ph
            ELSE IF Gt(predicted_y, top) THEN top
            ELSE predicted_y
    IN  IF Lt(predicted_y, Div(table_h, Q(2)))
        THEN Max(Sub(clamped, Mul(ph, Num(15, 100))), half_ph)
        ELSE Min(Add(clamped, Mul(ph, Num(15, 100))), top)

\* lines 147-162: the clamp of the predicted y and the edge bias
ApproachTarget(predicted_y, ph, table_w, table_h, dist_x, vx, vy) ==
    LET half_ph == Div(ph, Q(2))
        top == Sub(table_h, half_ph)
        clamped ==
            IF Lt(predicted_y, half_ph) THEN half_ph
            ELSE IF Gt(predicted_y, top) THEN top
            ELSE predicted_y
    IN  IF Lt(dist_x, Mul(table_w, Num(15, 100))) /\ SpeedAbove(vx, vy, Num(15, 10))
        THEN IF Lt(predicted_y, Div(table_h, Q(2)))
             THEN Max(Sub(clamped, Mul(ph, Num(15, 100))), half_ph)
             ELSE Min(Add(clamped, Mul(ph, Num(15, 100))), top)
        ELSE clamped

\* the waiting position with the two weights exchanged
RestingTargetSwapped(is_left, ball_cx, ball_cy, table_w, table_h) ==
    LET mid_x == Div(table_w, Q(2))
        mid_y == Div(table_h, Q(2))
    IN  IF (is_left /\ Gt(ball_cx, mid_x)) \/ (~is_left /\ Lt(ball_cx, mid_x))
        THEN Add(Mul(ball_cy, Num(6, 10)), Mul(mid_y, Num(4, 10)))
        ELSE mid_y

\* lines 166-173: the waiting position
RestingTarget(is_left, ball_cx, ball_cy, table_w, table_h) ==
    LET mid_x == Div(table_w, Q(2))
        mid_y == Div(table_h, Q(2))
    IN  IF (is_left /\ Gt(ball_cx, mid_x)) \/ (~is_left /\ Lt(ball_cx, mid_x))
        THEN Add(Mul(ball_cy, Num(4, 10)), Mul(mid_y, Num(6, 10)))
        ELSE mid_y

\* lines 64-79 and 118-224: one call from the estimate e on
Decide(paddle_frect, ball_frect, table, e) ==
    LET ph == Q(paddle_frect.size[2])
        table_w == Q(table[1])
        table_h == Q(table[2])
        paddle_cx == CentreX(paddle_frect)
        paddle_cy == CentreY(paddle_frect)
        ball_cx == CentreX(ball_frect)
        ball_cy == CentreY(ball_frect)
        vx == e.vx
        vy == e.vy
        is_left == Lt(paddle_cx, Div(table_w, Q(2)))
        toward_me == IF is_left THEN Lt(vx, Zero) ELSE Gt(vx, Zero)
        t_to_paddle ==
            IF Lt(AbsV(vx), EPS) THEN InfOf(1) ELSE Div(Sub(paddle_cx, ball_cx), vx)
        dist_x == AbsV(Sub(paddle_cx, ball_cx))
        approach == toward_me /\ Gt(t_to_paddle, Zero)
        pred ==
            IF approach
            THEN _predict_ball_y(ball_cy, vy, t_to_paddle, table_h)
            ELSE [err |-> FALSE, y |-> None]
        target_cy ==
            IF pred.err THEN NotComputed
            ELSE IF approach
            THEN ApproachTarget(pred.y, ph, table_w, table_h, dist_x, vx, vy)
            ELSE RestingTarget(is_left, ball_cx, ball_cy, table_w, table_h)
        tolerance == Tolerance(toward_me, dist_x, table_w, ph)
        diff == IF pred.err THEN NotComputed ELSE Sub(target_cy, paddle_cy)
    IN  [paddle |-> paddle_frect, ball |-> ball_frect,
         ball_cx |-> ball_cx, ball_cy |-> ball_cy, paddle_cy |-> paddle_cy,
         inst_vx |-> e.inst_vx, inst_vy |-> e.inst_vy, alpha |-> e.alpha,
         vx |-> vx, vy |-> vy,
         is_left |-> is_left, toward_me |-> toward_me,
         t_to_paddle |-> t_to_paddle, dist_x |-> dist_x,
         branch |-> IF approach THEN "approach" ELSE "resting",
         predicted_y |-> pred.y, target_cy |-> target_cy,
         tolerance |-> IF pred.err THEN NotComputed ELSE tolerance,
         diff |-> diff,
         cmd |-> IF pred.err THEN "ZeroDivisionError"
                 ELSE Command(diff, tolerance, toward_me, dist_x, table_w,
                              table_h, paddle_cy, ph)]

\* ---------------------------------------------------------------- pong_ai
\* is_left of line 119, which tells the two logical paddles apart
IsLeft(paddle_frect, table) == Lt(CentreX(paddle_frect), Div(Q(table[1]), Q(2)))

\* the call ended inside the dead zone: |target_cy - paddle_cy| <= tolerance
InDeadZone(d) == IsNum(d.diff) /\ Le(AbsV(d.diff), d.tolerance)

NoCall == [cmd |-> "none"]
NoZone == [on |-> FALSE]
NoInput == [h |-> None]
NoResult == [err |-> FALSE, y |-> None, done |-> FALSE]

\* one call pong_ai(paddle_frect, other_paddle_frect, ball_frect, table_size);
\* other_paddle_frect is never read.  The globals are read for the estimate,
\* then assigned (lines 113-116), and only then can the call raise.
pong_ai(paddle_frect, ball_frect) ==
    /\ calls < MaxCalls
    /\ \E g \in {Globals}, side \in {IsLeft(paddle_frect, table_size)},
          ball_cx \in {CentreX(ball_frect)}, ball_cy \in {CentreY(ball_frect)} :
         \E sg \in {solo[side]} :
          \E c \in {CancelsXY(g, ball_cx, ball_cy)},
             sc \in {IF sg = g THEN <<FALSE, FALSE>> ELSE CancelsXY(sg, ball_cx, ball_cy)} :
          \E r \in Roundings(<<c[1] \/ sc[1], c[2] \/ sc[2]>>) :
           \E e \in {Estimate(g, ball_cx, ball_cy, r[1], r[2])},
              se \in {Estimate(sg, ball_cx, ball_cy, r[1], r[2])} :
            \E d \in {Decide(paddle_frect, ball_frect, table_size, e)},
               new \in {StoreState(ball_cx, ball_cy, e)} :
             \E sd \in {IF se = e THEN d
                         ELSE Decide(paddle_frect, ball_frect, table_size, se)} :
                  /\ _last_ball_cx' = new.cx
                  /\ _last_ball_cy' = new.cy
                  /\ _last_vx' = new.vx
                  /\ _last_vy' = new.vy
                  /\ out' = d @@
                            [read |-> g, solo_read |-> sg, solo_vx |-> sd.vx,
                             solo_vy |-> sd.vy, solo_cmd |-> sd.cmd]
                  /\ solo' = [solo EXCEPT ![side] = StoreState(ball_cx, ball_cy, se)]
                  /\ zone' =
                        IF zone.on /\ zone.paddle = paddle_frect /\ zone.ball = ball_frect
                        THEN zone
                        ELSE IF InDeadZone(d)
                        THEN [on |-> TRUE, paddle |-> paddle_frect,
                              ball |-> ball_frect, cmd |-> d.cmd]
                        ELSE NoZone
    /\ calls' = calls + 1
    /\ UNCHANGED <<table_size, pin, pres>>

\* a fresh import of the module: lines 15-18
Init ==
    /\ table_size \in Tables
    /\ _last_ball_cx = None
    /\ _last_ball_cy = None
    /\ _last_vx = None
    /\ _last_vy = None
    /\ calls = 0
    /\ out = NoCall
    /\ solo = [s \in BOOLEAN |-> NoHistory]
    /\ zone = NoZone
    /\ pin = NoInput
    /\ pres = NoResult

Next == \E p \in Paddles, b \in Balls : pong_ai(p, b)

Spec == Init /\ [][Next]_vars

\* ------------------------------------------- _predict_ball_y called alone
Halves(lo, hi) == {Num(i, 2) : i \in lo..hi}

\* (ball_cy, vy, t, table_height): heights 0..MaxH, every start on the table
\* in steps of 1/2, speeds and times in steps of 1/2, and a residue speed
PredictInputs ==
    UNION {[start : Halves(0, 2 * h),
            v : Halves(-MaxV2, MaxV2) \cup {TinyOf(-1), TinyOf(1)},
            t : Halves(-1, MaxT2),
            h : {Q(h)}] : h \in 0..MaxH}

InitPredict ==
    /\ table_size = <<800, 600>>
    /\ _last_ball_cx = None
    /\ _last_ball_cy = None
    /\ _last_vx = None
    /\ _last_vy = None
    /\ calls = 0
    /\ out = NoCall
    /\ solo = [s \in BOOLEAN |-> NoHistory]
    /\ zone = NoZone
    /\ pin \in PredictInputs
    /\ pres = NoResult

predict_call ==
    /\ pres = NoResult
    /\ pres' = _predict_ball_y(pin.start, pin.v, pin.t, pin.h) @@ [done |-> TRUE]
    /\ UNCHANGED <<table_size, _last_ball_cx, _last_ball_cy, _last_vx, _last_vy,
                   calls, out, solo, zone, pin>>

NextPredict == predict_call

SpecPredict == InitPredict /\ [][NextPredict]_vars


\* ================================================================ claims
Called == calls > 0
Returned == out.cmd \in {"up", "down"}
Ph == Q(out.paddle.size[2])
TableW == Q(table_size[1])
TableH == Q(table_size[2])
HalfPh == Div(Ph, Q(2))

\* C1: every pong_ai call completes without raising and returns "up" or
\* "down", also on a table of height 0, with the ball at the paddle's x and
\* with a smoothed vx below 1e-9.
C1_TotalFunction == Called => Returned

\* a call that raised out of the unguarded modulo of line 37
C1_Raises == Called /\ out.cmd = "ZeroDivisionError" /\ table_size[2] = 0

C3_DeadZoneStable == zone.on => out.cmd = zone.cmd

\* a later call of the run answers differently from the dead-zone call
C3_Flips == zone.on /\ Returned /\ out.cmd # zone.cmd

\* C4: interleaved with the calls of the other logical paddle, a call reads
\* the stored state, uses the smoothed velocity and returns the command of a
\* session in which only its own paddle's calls are made.
C4_Isolation ==
    Called => /\ out.read = out.solo_read
              /\ out.vx = out.solo_vx
              /\ out.vy = out.solo_vy
              /\ out.cmd = out.solo_cmd

\* a call whose command differs from the one of its paddle's own session
C4_Leak == Called /\ Returned /\ out.solo_cmd \in {"up", "down"} /\ out.cmd # out.solo_cmd

\* C5: after the first call, inst is the ball centre minus the stored centre
\* and the smoothed velocity is (1-a)*prior + a*inst on both axes, a = 0.6
\* when |inst - prior| > 2.0 on either axis and a = 0.35 otherwise, so at
\* exactly 2.0; here as 5*v = 2*prior + 3*inst and 20*v = 13*prior + 7*inst.
C5_Smoothing ==
    (Called /\ ~IsNone(out.read.vx)) =>
        LET big == \/ Gt(AbsV(Sub(out.inst_vx, out.read.vx)), Q(2))
                   \/ Gt(AbsV(Sub(out.inst_vy, out.read.vy)), Q(2))
            m == IF big THEN <<5, 2, 3>> ELSE <<20, 13, 7>>
        IN  /\ out.inst_vx = Sub(out.ball_cx, out.read.cx)
            /\ out.inst_vy = Sub(out.ball_cy, out.read.cy)
            /\ out.alpha = (IF big THEN Num(6, 10) ELSE Num(35, 100))
            /\ Mul(Q(m[1]), St(out.vx))
                 = Add(Mul(Q(m[2]), St(out.read.vx)), Mul(Q(m[3]), out.inst_vx))
            /\ Mul(Q(m[1]), St(out.vy))
                 = Add(Mul(Q(m[2]), St(out.read.vy)), Mul(Q(m[3]), out.inst_vy))

\* the second call of a session with a change of exactly 2.0 on x, none on y
C5_Witness ==
    /\ calls = 2
    /\ out.read.vx = Zero /\ out.read.vy = Zero
    /\ AbsV(out.inst_vx) = Q(2) /\ out.inst_vy = Zero
    /\ AbsV(out.vx) = Num(7, 10)

\* C6: in the approach branch with ph <= H the final target_cy lies in
\* [ph/2, H - ph/2], and is exactly the bound the predicted y lies beyond.
C6_OnTableClamp ==
    (Called /\ Returned /\ out.branch = "approach" /\ Le(Ph, TableH)) =>
        /\ Le(HalfPh, out.target_cy)
        /\ Le(out.target_cy, Sub(TableH, HalfPh))
        /\ Lt(out.predicted_y, HalfPh) => out.target_cy = HalfPh
        /\ Gt(out.predicted_y, Sub(TableH, HalfPh))
              => out.target_cy = Sub(TableH, HalfPh)

\* an approach on a residue vx: t_to_paddle is inf and the target nan
C6_NaNTarget ==
    /\ Called /\ Returned /\ out.branch = "approach" /\ Le(Ph, TableH)
    /\ out.vx.k = "tiny" /\ out.t_to_paddle = InfOf(1) /\ out.target_cy = NaN

\* the command of the dead zone's far-or-receding case (lines 217-224)
DriftCommand ==
    LET center_offset == Sub(out.paddle_cy, Div(TableH, Q(2)))
    IN  IF Gt(AbsV(center_offset), Mul(Ph, Num(5, 100)))
        THEN (IF Gt(center_offset, Zero) THEN "up" ELSE "down")
        ELSE (IF Lt(out.diff, Zero) THEN "up" ELSE "down")

\* C7: on the first call of a session inst and the smoothed velocity are
\* (0,0), toward_me is false, the resting branch is taken, target_cy is the
\* table midpoint, or 0.4*ball_cy + 0.6*midpoint with the ball strictly on the
\* far side, and the command is the resting branch's.
C7_FirstCall ==
    calls = 1 =>
        LET far == IF out.is_left THEN Gt(out.ball_cx, Div(TableW, Q(2)))
                   ELSE Lt(out.ball_cx, Div(TableW, Q(2)))
            tol == Max(Mul(Ph, Num(12, 100)), Num(8, 10))
        IN  /\ out.inst_vx = Zero /\ out.inst_vy = Zero
            /\ out.vx = Zero /\ out.vy = Zero
            /\ ~out.toward_me
            /\ out.branch = "resting"
            /\ IF far
               THEN Mul(Q(10), out.target_cy) = Add(Mul(Q(4), out.ball_cy), Mul(Q(3), TableH))
               ELSE Mul(Q(2), out.target_cy) = TableH
            /\ out.cmd = IF Gt(out.diff, tol) THEN "down"
                         ELSE IF Lt(out.diff, Neg(tol)) THEN "up"
                         ELSE DriftCommand

\* a first call with the ball on the far side of a left paddle
C7_Witness ==
    /\ calls = 1 /\ out.is_left /\ Gt(out.ball_cx, Div(TableW, Q(2)))
    /\ TableH = Q(600) /\ out.target_cy = Q(294)

\* the second call of the example, after a first call with the ball at (400,280)
ExampleSecondCall ==
    /\ calls = 2
    /\ table_size = <<800, 600>>
    /\ out.paddle = Rect(10, 250, 20, 100)
    /\ out.ball = Rect(380, 280, 10, 10)
    /\ out.read.cx = Q(405) /\ out.read.cy = Q(285)

\* C8: table (800,600), paddle pos (10,250) size (20,100), ball (400,280) then
\* (380,280), size (10,10): the second call has toward_me, takes the approach
\* branch with predicted and target y 285, diff = -15 < -tolerance, returns "up".
C8_Example ==
    ExampleSecondCall =>
        /\ out.toward_me
        /\ out.branch = "approach"
        /\ out.predicted_y = Q(285)
        /\ out.target_cy = Q(285)
        /\ out.diff = Q(-15)
        /\ Lt(out.diff, Neg(out.tolerance))
        /\ out.cmd = "up"

C8_Witness == ExampleSecondCall /\ out.vx = Q(-12) /\ out.vy = Zero

\* C9: after any call, also one that raised, the stored centre is that call's
\* ball centre, the stored velocity the smoothed velocity it decided with,
\* none of the four is None, and its inst came from the state stored before.
C9_StateUpdate ==
    Called =>
        /\ _last_ball_cx = out.ball_cx /\ _last_ball_cy = out.ball_cy
        /\ _last_vx = out.vx /\ _last_vy = out.vy
        /\ ~IsNone(_last_ball_cx) /\ ~IsNone(_last_ball_cy)
        /\ ~IsNone(_last_vx) /\ ~IsNone(_last_vy)
        /\ ~IsNone(out.read.cx) => /\ out.inst_vx = Sub(out.ball_cx, out.read.cx)
                                   /\ out.inst_vy = Sub(out.ball_cy, out.read.cy)

\* a later call that raised after storing a velocity that differs from inst
C9_Witness ==
    /\ calls >= 2 /\ out.cmd = "ZeroDivisionError"
    /\ _last_vx = out.vx /\ out.vx # out.inst_vx
    /\ _last_ball_cx = out.ball_cx /\ out.ball_cx # out.read.cx

\* C10: tolerance = max(k*ph, 0.8), k = 0.02 if toward_me and dist_x < 0.25*W,
\* 0.05 if toward_me and dist_x < 0.5*W, else 0.12; diff = target_cy - paddle_cy;
\* the call returns "down" when diff > tolerance, "up" when diff < -tolerance.
C10_TowardTarget ==
    (Called /\ Returned) =>
        LET k == IF out.toward_me /\ Lt(Mul(Q(4), out.dist_x), TableW) THEN 2
                 ELSE IF out.toward_me /\ Lt(Mul(Q(2), out.dist_x), TableW) THEN 5
                 ELSE 12
            kph == Mul(Q(k), Ph)
        IN  /\ Mul(Q(100), out.tolerance) = (IF Gt(kph, Q(80)) THEN kph ELSE Q(80))
            /\ Le(Num(8, 10), out.tolerance)
            /\ out.diff = Sub(out.target_cy, out.paddle_cy)
            /\ Gt(out.diff, out.tolerance) => out.cmd = "down"
            /\ Lt(out.diff, Neg(out.tolerance)) => out.cmd = "up"

\* an approach with the tolerance at its floor of 0.8 and the target below
C10_Witness ==
    /\ Called /\ out.branch = "approach"
    /\ out.tolerance = Num(8, 10)
    /\ Gt(out.diff, out.tolerance) /\ out.cmd = "down"

=============================================================================
